---- MODULE Spec2Model ----
(***************************************************************************)
(* Model of src/src/main.py: the keyword analyzer (analyze_keyword with    *)
(* create_driver / cleanup_driver), the ranking aggregation it performs,   *)
(* and the resumable batch loop of main with its results table on disk.    *)
(***************************************************************************)
EXTENDS Integers, Sequences, FiniteSets, TLC

\* ------------------------------------------------------------------ bounds
MaxKeywords == 2
MaxExisting == 1
MaxRuns == 2

\* ------------------------------------------------------- program constants
MaxAttempts == 3
WindowSize == 10
PassThreshold == 5

Keywords == {"k1", "k2"}
\* str(exc) of the exceptions a step can raise; str(MemoryError()) is ""
Messages == {"", "e1"}

ROCKET == "rocket-delivery"
SELLER == "seller-fulfilled-rocket"
NOBADGE == "no-badge"

\* -------------------------------------------------------- rank text parsing
DigitVal == [c \in {"0", "1", "2", "3", "4", "5", "6", "7", "8", "9"} |->
               CASE c = "0" -> 0 [] c = "1" -> 1 [] c = "2" -> 2 [] c = "3" -> 3
                 [] c = "4" -> 4 [] c = "5" -> 5 [] c = "6" -> 6 [] c = "7" -> 7
                 [] c = "8" -> 8 [] c = "9" -> 9]

\* characters for which str.isdigit() holds although int() rejects them, such
\* as the superscript two; "sup2" stands for it
DigitOnly == {"sup2"}

\* char.isdigit() at line 257
IsDigit(c) == c \in DOMAIN DigitVal \cup DigitOnly

\* int(digits) at line 260 accepts decimal digits only
IntAccepts(digits) == \A i \in DOMAIN digits : digits[i] \in DOMAIN DigitVal

RECURSIVE DigitsOf(_)
DigitsOf(text) ==
    IF text = <<>> THEN <<>>
    ELSE IF IsDigit(Head(text)) THEN <<Head(text)>> \o DigitsOf(Tail(text))
         ELSE DigitsOf(Tail(text))

RECURSIVE ToInt(_)
ToInt(digits) ==
    IF digits = <<>> THEN 0
    ELSE 10 * ToInt(SubSeq(digits, 1, Len(digits) - 1)) + DigitVal[digits[Len(digits)]]

\* None is modelled as 0, which is never a rank the function returns
None == 0

\* the outcome "int() raised ValueError", which is no return value
ValueError == -1

parse_rank_number(rank_text) ==
    IF rank_text = <<>> THEN None
    ELSE LET digits == DigitsOf(rank_text) IN
         IF digits = <<>> THEN None
         ELSE IF ~IntAccepts(digits) THEN ValueError
         ELSE LET rank == ToInt(digits) IN
              IF 1 <= rank /\ rank <= WindowSize THEN rank ELSE None

\* str(rank): the decimal text of a non-negative integer
RECURSIVE Decimal(_)
Decimal(n) ==
    LET last == CHOOSE c \in DOMAIN DigitVal : DigitVal[c] = n % 10 IN
    IF n < 10 THEN <<last>> ELSE Decimal(n \div 10) \o <<last>>

\* ------------------------------------------------------- ranking aggregation
\* variant: a later item at a rank replaces the earlier one
ScanItem_last_wins(ranked_items, item) ==
    LET rank_number == parse_rank_number(item.rank_text) IN
    IF item.is_ad \/ rank_number = None \/ rank_number = ValueError THEN ranked_items
    ELSE [r \in DOMAIN ranked_items \cup {rank_number} |->
             IF r = rank_number THEN item.badge_type ELSE ranked_items[r]]

\* variant: neither the parser nor the loop checks the range of the rank
ScanItem_unchecked(ranked_items, item) ==
    LET digits == DigitsOf(item.rank_text)
        rank_number == IF digits = <<>> \/ ~IntAccepts(digits) THEN None
                       ELSE ToInt(digits) IN
    IF item.is_ad \/ rank_number = None THEN ranked_items
    ELSE IF rank_number \in DOMAIN ranked_items THEN ranked_items
    ELSE [r \in DOMAIN ranked_items \cup {rank_number} |->
             IF r = rank_number THEN item.badge_type ELSE ranked_items[r]]

\* one pass of the loop body 336-357 over a listed item whose rank text
\* parse_rank_number accepts
ScanItem(ranked_items, item) ==
    LET rank_number == parse_rank_number(item.rank_text) IN
    IF item.is_ad \/ rank_number = None THEN ranked_items
    ELSE IF 1 <= rank_number /\ rank_number <= WindowSize
         THEN \* 354-357: an entry already at the rank stays, else one is added
              ranked_items @@ (rank_number :> item.badge_type)
         ELSE ranked_items

RECURSIVE ScanItems(_, _)
ScanItems(ranked_items, items) ==
    IF items = <<>> THEN ranked_items
    ELSE ScanItems(ScanItem(ranked_items, Head(items)), Tail(items))

EmptyWindow == [r \in {} |-> NOBADGE]

\* line 337 raises for none of the items
Parses(items) ==
    \A j \in DOMAIN items : parse_rank_number(items[j].rank_text) # ValueError

\* the entry appended to debug_items at 342-350
DebugItem(item) ==
    [rank_text |-> item.rank_text, rank_number |-> parse_rank_number(item.rank_text),
     is_ad |-> item.is_ad, badge_type |-> item.badge_type]

DebugItems(items) == [j \in DOMAIN items |-> DebugItem(items[j])]

\* variant: every rocket badge counts
CountsBadge_any_rocket(badge_type) == badge_type \in {ROCKET, SELLER}

CountsBadge(badge_type) == badge_type = ROCKET

CountOrganic(ranked_items) ==
    Cardinality({rank \in 1..WindowSize : rank \in DOMAIN ranked_items})

CountRocket(ranked_items) ==
    Cardinality({rank \in 1..WindowSize :
                    rank \in DOMAIN ranked_items /\ CountsBadge(ranked_items[rank])})

\* a ratio is kept exact as <<numerator, denominator>>; 0.0 is <<0, 1>>
Ratio(rocket, organic) == IF organic # 0 THEN <<rocket, organic>> ELSE <<0, 1>>

\* round(x, 4) in ten-thousandths (no tie can occur for denominators <= 10)
Round4(ratio) == (2 * 10000 * ratio[1] + ratio[2]) \div (2 * ratio[2])

\* variant: the verdict looks at the badge count only
VerdictOf_counts_only(rocket, error) ==
    IF rocket <= PassThreshold THEN "PASS" ELSE "FAIL"

\* analyze_keyword 382-384
VerdictOf(rocket, error) ==
    IF error # "" THEN "FAIL"
    ELSE IF rocket <= PassThreshold THEN "PASS" ELSE "FAIL"

\* ------------------------------------------------------------- pages served
Item(text, ad, badge) == [rank_text |-> text, is_ad |-> ad, badge_type |-> badge]

ItemsA ==
    << Item(<<"1">>, FALSE, ROCKET), Item(<<"2">>, FALSE, ROCKET),
       Item(<<"3">>, FALSE, ROCKET), Item(<<"4">>, FALSE, SELLER),
       Item(<<"5">>, FALSE, SELLER), Item(<<"6">>, FALSE, NOBADGE),
       Item(<<"7">>, FALSE, NOBADGE), Item(<<"8">>, FALSE, NOBADGE),
       Item(<<"9">>, FALSE, NOBADGE), Item(<<"1", "0">>, FALSE, NOBADGE) >>

ItemsC ==
    << Item(<<"1">>, FALSE, ROCKET), Item(<<"2">>, FALSE, ROCKET),
       Item(<<"3">>, FALSE, ROCKET), Item(<<"4">>, FALSE, ROCKET),
       Item(<<"5">>, FALSE, ROCKET), Item(<<"6">>, FALSE, ROCKET) >>

\* "w" stands for the non-digit suffix of a rank label such as "15<rank suffix>"
ItemsMixed ==
    << Item(<<"1">>, TRUE, ROCKET), Item(<<"1", "w">>, FALSE, SELLER),
       Item(<<"1">>, FALSE, ROCKET), Item(<<>>, FALSE, ROCKET),
       Item(<<"1", "5", "w">>, FALSE, ROCKET), Item(<<"2">>, FALSE, ROCKET) >>

Page(items, results, denied) ==
    [items |-> items, has_results |-> results, denied |-> denied]

NoPage == Page(<<>>, FALSE, FALSE)

\* what a navigation can show: result pages, a page that carries a denial
\* marker next to result items, and a denial page without result items
Pages ==
    { Page(ItemsC, TRUE, FALSE), Page(ItemsMixed, TRUE, FALSE),
      Page(ItemsMixed, TRUE, TRUE), Page(<<>>, FALSE, TRUE) }

\* ------------------------------------------------------------ results table
Row(keyword, organic, rocket, ratio4, verdict, error) ==
    [keyword |-> keyword, organic_count |-> organic, rocket_count |-> rocket,
     rocket_ratio |-> ratio4, verdict |-> verdict, error |-> error]

SearchResult(keyword, organic, rocket, ratio, verdict, error) ==
    [keyword |-> keyword, organic_count |-> organic, rocket_count |-> rocket,
     rocket_ratio |-> ratio, verdict |-> verdict, error |-> error]

RECURSIVE PassOnly(_)
PassOnly(table) ==
    IF table = <<>> THEN <<>>
    ELSE IF Head(table).verdict = "PASS" THEN <<Head(table)>> \o PassOnly(Tail(table))
         ELSE PassOnly(Tail(table))

\* the two sheets save_results writes
Sheets(table) == [main |-> table, pass_only |-> PassOnly(table)]

KeywordsOf(table) == {table[j].keyword : j \in DOMAIN table}

\* the file is "missing", "ok" (a complete workbook) or "partial" (opened for
\* writing and not yet closed: truncated, not a readable workbook)
load_existing_results(f, d) == IF f = "missing" THEN <<>> ELSE d.main

\* rows an earlier run can have left in the file
ExistingRows ==
    { Row("k1", 10, 3, 3000, "PASS", ""), Row("k2", 0, 0, 0, "FAIL", "e1") }

RECURSIVE SeqsUpTo(_, _)
SeqsUpTo(S, n) ==
    IF n = 0 THEN {<<>>}
    ELSE LET shorter == SeqsUpTo(S, n - 1) IN
         shorter \cup {Append(q, x) : q \in {t \in shorter : Len(t) = n - 1}, x \in S}

\* --------------------------------------------------------------------- state
VARIABLES
    keywords,       \* the keyword column of the input file, after load_keywords
    test_mode,      \* args.test
    file,           \* state of output/results.xlsx
    durable,        \* sheets of output/results.xlsx
    pc,             \* position of the process
    kws,            \* main: keywords after the test-mode cut
    completed,      \* main: completed
    all_results,    \* main: all_results
    index,          \* main: index of the for loop
    attempt,        \* main: attempt
    last_error,     \* main: last_error
    result,         \* main: result, <<>> for None, <<r>> otherwise
    organic_count,  \* analyze_keyword locals
    rocket_count,
    error_message,
    ranked_items,
    debug_items,    \* analyze_keyword: debug_items, without the product names
    page,           \* the page the driver currently shows
    held,           \* session resources the attempt in progress holds
    leaked,         \* kinds of resources a failed create_driver left behind;
                    \* nothing releases them, they are followed until main
                    \* has caught the exception
    exc,            \* str() of the exception propagating into main
    runs,           \* number of process starts so far
    att,            \* history of the current analyzer attempt
    hist            \* history of the current run

vars == << keywords, test_mode, file, durable, pc, kws, completed, all_results,
           index, attempt, last_error, result, organic_count, rocket_count,
           error_message, ranked_items, debug_items, page, held, leaked, exc,
           runs, att, hist >>

input == << keywords, test_mode >>
disk == << file, durable >>
mainLocals == << kws, completed, all_results, index, attempt, last_error, result >>
analyzerLocals ==
    << organic_count, rocket_count, error_message, ranked_items, debug_items >>
session == << held, leaked >>

\* what create_driver acquires, in its order: tempfile.mkdtemp, Popen,
\* webdriver.Chrome
Acquired(stage) ==
    (IF stage >= 1 THEN {"profile"} ELSE {}) \cup
    (IF stage >= 2 THEN {"process"} ELSE {}) \cup
    (IF stage >= 3 THEN {"driver"} ELSE {})

WholeSession == Acquired(3)

NoAttempt ==
    [navs |-> 0, waits |-> 0, denied |-> FALSE, cooled |-> FALSE,
     raised |-> FALSE, msg |-> "", opened |-> FALSE]

\* loaded: the table read at startup; calls, clean: analyzer invocations of the
\* current loop iteration and whether one returned an empty error; processed:
\* loop positions whose row was saved in this run; persisted: the table of the
\* last workbook written completely; at_cancel: <<>> or <<t>>, t the persisted
\* table when the process was last cancelled
NoHistory ==
    [loaded |-> <<>>, calls |-> 0, clean |-> FALSE, processed |-> {},
     persisted |-> <<>>, at_cancel |-> <<>>, third |-> <<>>]

\* what the last attempt range(1, 4) allows ended with: the counts and the
\* error it returned, or no counts (0, as at main 429-436) and the message of
\* the exception that left it
Ended(organic, rocket, error) ==
    << [organic_count |-> organic, rocket_count |-> rocket, error |-> error] >>

Init ==
    /\ keywords \in SeqsUpTo(Keywords, MaxKeywords)
    /\ test_mode \in BOOLEAN
    /\ \E table \in SeqsUpTo(ExistingRows, MaxExisting) :
          \/ table # <<>> /\ file = "ok" /\ durable = Sheets(table)
          \/ table = <<>> /\ file = "missing" /\ durable = Sheets(<<>>)
    /\ pc = "start"
    /\ kws = <<>>
    /\ completed = {}
    /\ all_results = <<>>
    /\ index = 1
    /\ attempt = 1
    /\ last_error = ""
    /\ result = <<>>
    /\ organic_count = 0
    /\ rocket_count = 0
    /\ error_message = ""
    /\ ranked_items = EmptyWindow
    /\ debug_items = <<>>
    /\ page = NoPage
    /\ held = {}
    /\ leaked = {}
    /\ exc = ""
    /\ runs = 1
    /\ att = NoAttempt
    /\ hist = [NoHistory EXCEPT !.persisted = durable.main]

\* --------------------------------------------------------- main: lines 395-413
\* variant: only the keywords with a PASS row count as completed
CompletedOf_pass_only(table) == KeywordsOf(PassOnly(table))

\* main 404: the keyword column of the loaded table, as a set
CompletedOf(table) == KeywordsOf(table)

\* main 402-409: load the table, derive completed, cut the list in test mode
main_start ==
    /\ pc = "start"
    /\ IF file = "partial"
       THEN /\ pc' = "load_failed"
            /\ UNCHANGED << mainLocals, hist >>
       ELSE /\ all_results' = load_existing_results(file, durable)
            /\ completed' = CompletedOf(all_results')
            /\ kws' = IF test_mode /\ keywords # <<>> THEN SubSeq(keywords, 1, 1)
                      ELSE keywords
            /\ index' = 1
            /\ pc' = "loop"
            /\ hist' = [hist EXCEPT !.loaded = all_results']
            /\ UNCHANGED << attempt, last_error, result >>
    /\ UNCHANGED << input, disk, analyzerLocals, page, session, exc, runs, att >>

\* variant: the completed set is never consulted
IsCompleted_never(keyword, done) == FALSE

\* main 412: the test deciding that a keyword is skipped
IsCompleted(keyword, done) == keyword \in done

\* main 411: the loop is exhausted
main_done ==
    /\ pc = "loop"
    /\ index > Len(kws)
    /\ pc' = "done"
    /\ UNCHANGED << input, disk, mainLocals, analyzerLocals, page, session, exc,
                    runs, att, hist >>

\* main 412-413: continue
main_skip ==
    /\ pc = "loop"
    /\ index <= Len(kws)
    /\ IsCompleted(kws[index], completed)
    /\ index' = index + 1
    /\ UNCHANGED << input, disk, pc, kws, completed, all_results, attempt,
                    last_error, result, analyzerLocals, page, session, exc, runs,
                    att, hist >>

\* main 415-418: start the retry loop of a keyword
main_begin_keyword ==
    /\ pc = "loop"
    /\ index <= Len(kws)
    /\ ~IsCompleted(kws[index], completed)
    /\ last_error' = ""
    /\ result' = <<>>
    /\ attempt' = 1
    /\ pc' = "call"
    /\ hist' = [hist EXCEPT !.calls = 0, !.clean = FALSE]
    /\ UNCHANGED << input, disk, kws, completed, all_results, index,
                    analyzerLocals, page, session, exc, runs, att >>

\* ------------------------------------------------- analyze_keyword: 313-392
\* main 420, analyze_keyword 314-317: the call and the initial locals
analyze_keyword_enter ==
    /\ pc = "call"
    /\ organic_count' = 0
    /\ rocket_count' = 0
    /\ error_message' = ""
    /\ ranked_items' = EmptyWindow
    /\ debug_items' = <<>>
    /\ att' = NoAttempt
    /\ hist' = [hist EXCEPT !.calls = @ + 1]
    /\ pc' = "create_driver"
    /\ UNCHANGED << input, disk, mainLocals, page, session, exc, runs >>

\* create_driver 123-152 succeeds: profile directory, browser process, driver
create_driver_ok ==
    /\ pc = "create_driver"
    /\ held' = WholeSession
    /\ UNCHANGED leaked
    /\ page' = NoPage
    /\ att' = [att EXCEPT !.opened = TRUE]
    /\ pc' = "navigate"
    /\ UNCHANGED << input, disk, mainLocals, analyzerLocals, exc, runs, hist >>

\* create_driver raises after `stage` of its acquisitions: 0 mkdtemp fails,
\* 1 find_chrome_path or Popen fails, 2 webdriver.Chrome fails,
\* 3 set_page_load_timeout fails; nothing acquired so far is released, and
\* line 319 is outside the try, so the exception leaves analyze_keyword
create_driver_raise ==
    /\ pc = "create_driver"
    /\ \E stage \in 0..3, m \in Messages :
          /\ leaked' = leaked \cup Acquired(stage)
          /\ UNCHANGED held
          /\ att' = [att EXCEPT !.raised = TRUE, !.msg = m]
          /\ exc' = m
          /\ pc' = "main_except"
    /\ UNCHANGED << input, disk, mainLocals, analyzerLocals, page, runs, hist >>

\* analyze_keyword 376-379: an exception inside the try is recorded, then the
\* finally clause runs
Caught(m) ==
    /\ error_message' = m
    /\ att' = [att EXCEPT !.raised = TRUE, !.msg = m]
    /\ pc' = "cleanup"

\* open_search_from_home 218-235, called at 321 (from "navigate") and at 329
\* (from "retry_nav")
open_search_from_home(from, to) ==
    /\ pc = from
    /\ \/ \E p \in Pages :
             /\ page' = p
             /\ att' = [att EXCEPT !.navs = @ + 1]
             /\ pc' = to
             /\ UNCHANGED error_message
       \/ \E m \in Messages :
             /\ error_message' = m
             /\ att' = [att EXCEPT !.navs = @ + 1, !.raised = TRUE, !.msg = m]
             /\ pc' = "cleanup"
             /\ UNCHANGED page
    /\ UNCHANGED << input, disk, mainLocals, organic_count, rocket_count,
                    ranked_items, debug_items, session, exc, runs, hist >>

\* WebDriverWait(...).until(presence of li.search-product), 322 and 330; a
\* TimeoutException never has an empty str()
wait_for_results(from, to) ==
    /\ pc = from
    /\ IF page.has_results
       THEN /\ att' = [att EXCEPT !.waits = @ + 1]
            /\ pc' = to
            /\ UNCHANGED error_message
       ELSE \E m \in Messages \ {""} :
               /\ error_message' = m
               /\ att' = [att EXCEPT !.waits = @ + 1, !.raised = TRUE, !.msg = m]
               /\ pc' = "cleanup"
    /\ UNCHANGED << input, disk, mainLocals, organic_count, rocket_count,
                    ranked_items, debug_items, page, session, exc, runs,
                    hist >>

navigate == open_search_from_home("navigate", "wait")
wait == wait_for_results("wait", "scroll")

\* 323-325: settle, human_like_scroll (may raise), human_like_mouse
human_like_scroll ==
    /\ pc = "scroll"
    /\ \/ pc' = "check_denied" /\ UNCHANGED << error_message, att >>
       \/ \E m \in Messages : Caught(m)
    /\ UNCHANGED << input, disk, mainLocals, organic_count, rocket_count,
                    ranked_items, debug_items, page, session, exc, runs,
                    hist >>

\* is_access_denied 210-215 and the branch at 327
is_access_denied ==
    /\ pc = "check_denied"
    /\ \/ /\ page.denied
          /\ att' = [att EXCEPT !.denied = TRUE]
          /\ pc' = "cooldown"
          /\ UNCHANGED error_message
       \/ /\ ~page.denied
          /\ pc' = "classify"
          /\ UNCHANGED << error_message, att >>
       \/ \E m \in Messages : Caught(m)
    /\ UNCHANGED << input, disk, mainLocals, organic_count, rocket_count,
                    ranked_items, debug_items, page, session, exc, runs,
                    hist >>

\* 328: time.sleep(random.uniform(30, 60))
cooldown ==
    /\ pc = "cooldown"
    /\ att' = [att EXCEPT !.cooled = TRUE]
    /\ pc' = "retry_nav"
    /\ UNCHANGED << input, disk, mainLocals, analyzerLocals, page, session, exc,
                    runs, hist >>

retry_navigate == open_search_from_home("retry_nav", "retry_wait")

\* variant: the denial check is repeated after the retry
retry_wait_recheck == wait_for_results("retry_wait", "check_denied")

retry_wait == wait_for_results("retry_wait", "classify")

\* 332-357: find the items and classify each into the ranking window
classify ==
    /\ pc = "classify"
    /\ \/ /\ Parses(page.items)
          /\ ranked_items' = ScanItems(EmptyWindow, page.items)
          /\ debug_items' = DebugItems(page.items)
          /\ pc' = "count"
          /\ UNCHANGED << error_message, att >>
       \/ \E m \in Messages : Caught(m) /\ UNCHANGED << ranked_items, debug_items >>
    /\ UNCHANGED << input, disk, mainLocals, organic_count, rocket_count,
                    page, session, exc, runs, hist >>

\* 359-366: count the window
count ==
    /\ pc = "count"
    /\ organic_count' = organic_count + CountOrganic(ranked_items)
    /\ rocket_count' = rocket_count + CountRocket(ranked_items)
    /\ pc' = IF test_mode THEN "debug" ELSE "cleanup"
    /\ UNCHANGED << input, disk, mainLocals, error_message, ranked_items,
                    debug_items, page,
                    session, exc, runs, att, hist >>

\* 366-375: the debug dump of test mode
debug_dump ==
    /\ pc = "debug"
    /\ \/ pc' = "cleanup" /\ UNCHANGED << error_message, att >>
       \/ \E m \in Messages : Caught(m)
    /\ UNCHANGED << input, disk, mainLocals, organic_count, rocket_count,
                    ranked_items, debug_items, page, session, exc, runs,
                    hist >>

\* cleanup_driver 155-164 in the finally clause 378-379: quit the driver,
\* terminate the process, remove the profile; an exception of driver.quit()
\* passes through both finally clauses and leaves analyze_keyword
Released == {"driver", "process", "profile"}

cleanup_driver ==
    /\ pc = "cleanup"
    /\ held' = held \ Released
    /\ UNCHANGED leaked
    /\ page' = NoPage
    /\ \/ pc' = "build_result" /\ UNCHANGED << exc, att >>
       \/ \E m \in Messages :
             /\ exc' = m
             /\ att' = [att EXCEPT !.raised = TRUE, !.msg = m]
             /\ pc' = "main_except"
    /\ UNCHANGED << input, disk, mainLocals, analyzerLocals, runs, hist >>

\* 381-392 and main 420-421: build the result, assign result and last_error;
\* the locals of the call end with it
analyze_keyword_return ==
    /\ pc = "build_result"
    /\ result' = << SearchResult(kws[index], organic_count, rocket_count,
                                 Ratio(rocket_count, organic_count),
                                 VerdictOf(rocket_count, error_message),
                                 error_message) >>
    /\ last_error' = error_message
    /\ hist' = [hist EXCEPT
                    !.clean = @ \/ error_message = "",
                    !.third = IF attempt = MaxAttempts
                              THEN Ended(organic_count, rocket_count, error_message)
                              ELSE @]
    /\ pc' = "returned"
    /\ organic_count' = 0
    /\ rocket_count' = 0
    /\ error_message' = ""
    /\ ranked_items' = EmptyWindow
    /\ debug_items' = <<>>
    /\ UNCHANGED << input, disk, kws, completed, all_results, index, attempt,
                    page, session, exc, runs, att >>

\* ----------------------------------------------------- main: lines 418-463
\* variant: the retry loop has no break
ShouldBreak_never(error) == FALSE

\* main 422: the retry loop stops on an empty error
ShouldBreak(error) == error = ""

\* main 422-423 after a returned attempt
main_check_break ==
    /\ pc = "returned"
    /\ pc' = IF ShouldBreak(last_error) THEN "finish" ELSE "sleep"
    /\ att' = NoAttempt
    /\ UNCHANGED << input, disk, mainLocals, analyzerLocals, page, session, exc,
                    runs, hist >>

\* main 424-425: an exception that left analyze_keyword
main_except ==
    /\ pc = "main_except"
    /\ last_error' = exc
    /\ exc' = ""
    /\ att' = NoAttempt
    /\ organic_count' = 0
    /\ rocket_count' = 0
    /\ error_message' = ""
    /\ ranked_items' = EmptyWindow
    /\ debug_items' = <<>>
    /\ pc' = "sleep"
    /\ hist' = [hist EXCEPT
                    !.third = IF attempt = MaxAttempts THEN Ended(0, 0, exc) ELSE @]
    /\ leaked' = {}
    /\ UNCHANGED << input, disk, kws, completed, all_results, index, attempt,
                    result, page, held, runs >>

\* main 418: range(1, 4) has another value
HasNextAttempt(a) == a < MaxAttempts

\* variant: the run gives up when the attempts of a keyword are used up
main_sleep_abort ==
    /\ pc = "sleep"
    /\ IF HasNextAttempt(attempt)
       THEN attempt' = attempt + 1 /\ pc' = "call"
       ELSE pc' = "aborted" /\ UNCHANGED attempt
    /\ UNCHANGED << input, disk, kws, completed, all_results, index, last_error,
                    result, analyzerLocals, page, session, exc, runs, att, hist >>

\* main 426 and the next turn of the for loop at 418
main_sleep ==
    /\ pc = "sleep"
    /\ IF HasNextAttempt(attempt)
       THEN attempt' = attempt + 1 /\ pc' = "call"
       ELSE pc' = "finish" /\ UNCHANGED attempt
    /\ UNCHANGED << input, disk, kws, completed, all_results, index, last_error,
                    result, analyzerLocals, page, session, exc, runs, att, hist >>

\* main 428-445: the result that is recorded
FinalResult(keyword, res, error) ==
    IF res = <<>>
    THEN SearchResult(keyword, 0, 0, <<0, 1>>, "FAIL", error)
    ELSE IF error # ""
         THEN SearchResult(keyword, res[1].organic_count, res[1].rocket_count,
                           res[1].rocket_ratio, "FAIL", error)
         ELSE res[1]

\* main 447-454
NewRow(res) ==
    Row(res.keyword, res.organic_count, res.rocket_count, Round4(res.rocket_ratio),
        res.verdict, res.error)

\* main 428-455: append the row to the in-memory table
main_append ==
    /\ pc = "finish"
    /\ result' = << FinalResult(kws[index], result, last_error) >>
    /\ all_results' = Append(all_results, NewRow(result'[1]))
    /\ pc' = "save_open"
    /\ UNCHANGED << input, disk, kws, completed, index, attempt, last_error,
                    analyzerLocals, page, session, exc, runs, att, hist >>

\* save_results 88-89: ExcelWriter opens the output path itself for writing,
\* which truncates the workbook; the open may fail (the file is locked)
save_results_opened ==
    /\ pc = "save_open"
    /\ file' = "partial"
    /\ pc' = "save_write"
    /\ UNCHANGED << input, durable, mainLocals, analyzerLocals, page, session,
                    exc, runs, att, hist >>

save_results_locked ==
    /\ pc = "save_open"
    /\ pc' = "save_failed"
    /\ UNCHANGED << input, disk, mainLocals, analyzerLocals, page, session,
                    exc, runs, att, hist >>

save_results_open == save_results_opened \/ save_results_locked

\* variant: the save runs before the append, so the newest row is not written
Saved_before_append(table) == Sheets(SubSeq(table, 1, Len(table) - 1))

\* variant: the main sheet is filtered like the second sheet
Saved_pass_only(table) == Sheets(PassOnly(table))

\* the table save_results writes
Saved(table) == Sheets(table)

\* save_results 90-91 and the close of the writer, then main 458-463 and the
\* next turn of the for loop at 411
save_results_write ==
    /\ pc = "save_write"
    /\ file' = "ok"
    /\ durable' = Saved(all_results)
    /\ hist' = [hist EXCEPT !.processed = @ \cup {index}, !.calls = 0,
                             !.clean = FALSE, !.persisted = durable'.main,
                             !.third = <<>>]
    /\ index' = index + 1
    /\ pc' = "loop"
    /\ UNCHANGED << input, kws, completed, all_results, attempt, last_error,
                    result, analyzerLocals, page, session, exc, runs, att >>

\* ------------------------------------------------------ the process boundary
Running ==
    { "start", "loop", "call", "create_driver", "navigate", "wait", "scroll",
      "check_denied", "cooldown", "retry_nav", "retry_wait", "classify", "count",
      "debug", "cleanup", "build_result", "returned", "main_except", "sleep",
      "finish", "save_open", "save_write" }

Stopped == { "done", "cancelled", "load_failed", "save_failed" }

\* the state of a process that has not started
Fresh ==
    /\ kws' = <<>>
    /\ completed' = {}
    /\ all_results' = <<>>
    /\ index' = 1
    /\ attempt' = 1
    /\ last_error' = ""
    /\ result' = <<>>
    /\ organic_count' = 0
    /\ rocket_count' = 0
    /\ error_message' = ""
    /\ ranked_items' = EmptyWindow
    /\ debug_items' = <<>>
    /\ page' = NoPage
    /\ held' = {}
    /\ leaked' = {}
    /\ exc' = ""
    /\ att' = NoAttempt

\* the process is killed wherever it is; only the file survives
Cancel ==
    /\ pc \in Running
    /\ pc' = "cancelled"
    /\ Fresh
    /\ hist' = [NoHistory EXCEPT !.persisted = hist.persisted,
                                 !.at_cancel = << hist.persisted >>]
    /\ UNCHANGED << input, disk, runs >>

\* the program is started again with the same input
Restart ==
    /\ pc \in Stopped
    /\ runs < MaxRuns
    /\ runs' = runs + 1
    /\ pc' = "start"
    /\ Fresh
    /\ hist' = [NoHistory EXCEPT !.persisted = hist.persisted,
                                 !.at_cancel = hist.at_cancel]
    /\ UNCHANGED << input, disk >>

Next ==
    \/ main_start
    \/ main_done
    \/ main_skip
    \/ main_begin_keyword
    \/ analyze_keyword_enter
    \/ create_driver_ok
    \/ create_driver_raise
    \/ navigate
    \/ wait
    \/ human_like_scroll
    \/ is_access_denied
    \/ cooldown
    \/ retry_navigate
    \/ retry_wait
    \/ classify
    \/ count
    \/ debug_dump
    \/ cleanup_driver
    \/ analyze_keyword_return
    \/ main_check_break
    \/ main_except
    \/ main_sleep
    \/ main_append
    \/ save_results_open
    \/ save_results_write
    \/ Cancel
    \/ Restart

Spec == Init /\ [][Next]_vars

\* ------------------------------------------- one run that is left to itself
\* The steps of a process that is not killed and whose workbook can be
\* opened for writing at every save. Every step of main ends by itself (the
\* waits have timeouts, the sleeps are bounded), so the process keeps taking
\* steps as long as one is possible.
Run ==
    \/ main_start
    \/ main_done
    \/ main_skip
    \/ main_begin_keyword
    \/ analyze_keyword_enter
    \/ create_driver_ok
    \/ create_driver_raise
    \/ navigate
    \/ wait
    \/ human_like_scroll
    \/ is_access_denied
    \/ cooldown
    \/ retry_navigate
    \/ retry_wait
    \/ classify
    \/ count
    \/ debug_dump
    \/ cleanup_driver
    \/ analyze_keyword_return
    \/ main_check_break
    \/ main_except
    \/ main_sleep
    \/ main_append
    \/ save_results_opened
    \/ save_results_write

SpecRun == Init /\ [][Run]_vars /\ WF_vars(Run)

\* ------------------------------------- the classification loop, item by item
\* The second specification follows one call of analyze_keyword from line 332
\* to its return, one listed item per step, over every short list of items.
MaxItems == 2

\* rank labels: none, in the window, beyond it, zero, with a suffix, and one
\* with a character that isdigit() accepts and int() rejects
RankTexts ==
    { <<>>, <<"1">>, <<"2">>, <<"1", "0">>, <<"1", "1">>, <<"0">>, <<"2", "w">>,
      <<"sup2">> }

ItemDomain ==
    { Item(text, ad, badge) :
        text \in RankTexts, ad \in BOOLEAN, badge \in {ROCKET, SELLER, NOBADGE} }

ListedItems == SeqsUpTo(ItemDomain, MaxItems) \cup {ItemsA, ItemsC, ItemsMixed}

\* the call has a session and a loaded result page and stands at line 332
InitAgg ==
    /\ keywords = <<"k1">>
    /\ test_mode \in BOOLEAN
    /\ file = "missing"
    /\ durable = Sheets(<<>>)
    /\ pc = "scan"
    /\ kws = keywords
    /\ completed = {}
    /\ all_results = <<>>
    /\ index = 1
    /\ attempt = 1
    /\ last_error = ""
    /\ result = <<>>
    /\ organic_count = 0
    /\ rocket_count = 0
    /\ error_message = ""
    /\ ranked_items = EmptyWindow
    /\ debug_items = <<>>
    /\ \E items \in ListedItems : page = Page(items, TRUE, FALSE)
    /\ held = WholeSession
    /\ leaked = {}
    /\ exc = ""
    /\ runs = 1
    /\ att = [NoAttempt EXCEPT !.opened = TRUE, !.navs = 1, !.waits = 1]
    /\ hist = [NoHistory EXCEPT !.calls = 1]

\* 335-357 for the next listed item; int() at 261 may raise ValueError, whose
\* message is never empty
scan_item ==
    /\ pc = "scan"
    /\ Len(debug_items) < Len(page.items)
    /\ LET item == page.items[Len(debug_items) + 1] IN
       IF parse_rank_number(item.rank_text) = ValueError
       THEN /\ \E m \in Messages \ {""} : Caught(m)
            /\ UNCHANGED << ranked_items, debug_items >>
       ELSE /\ debug_items' = Append(debug_items, DebugItem(item))
            /\ ranked_items' = ScanItem(ranked_items, item)
            /\ UNCHANGED << pc, error_message, att >>
    /\ UNCHANGED << input, disk, mainLocals, organic_count, rocket_count,
                    page, session, exc, runs, hist >>

\* the loop at 335 is exhausted
scan_done ==
    /\ pc = "scan"
    /\ Len(debug_items) = Len(page.items)
    /\ pc' = "count"
    /\ UNCHANGED << input, disk, mainLocals, analyzerLocals, page, session, exc,
                    runs, att, hist >>

NextAgg ==
    \/ scan_item
    \/ scan_done
    \/ count
    \/ debug_dump
    \/ cleanup_driver
    \/ analyze_keyword_return

SpecAgg == InitAgg /\ [][NextAgg]_vars

\* ===================================================================== claims
InAnalyzer ==
    { "create_driver", "navigate", "wait", "scroll", "check_denied", "cooldown",
      "retry_nav", "retry_wait", "classify", "count", "debug", "cleanup",
      "build_result" }

InRetryLoop == InAnalyzer \cup { "call", "returned", "main_except", "sleep" }

\* rows appended to the in-memory table by the current run
AppendedRows == { all_results[j] : j \in (Len(hist.loaded) + 1)..Len(all_results) }

\* loop positions before `upto` that were not skipped
ProcessedBefore(upto) == { j \in 1..(upto - 1) : kws[j] \notin completed }

\* C1: in one turn of the batch loop for a keyword that is not completed the
\* analyzer is invoked at least once and at most 3 times, and once an attempt
\* has returned an empty error the retry loop is left for good.
C1_AttemptBudget ==
    /\ hist.calls <= MaxAttempts
    /\ pc \in InRetryLoop => hist.calls <= attempt
    /\ pc \in {"finish", "save_open", "save_write"} => hist.calls >= 1
    /\ hist.clean => pc \in {"returned", "finish", "save_open", "save_write", "save_failed"}

C1_Witness == pc = "finish" /\ hist.calls = 2 /\ hist.clean

\* C2: a keyword present in the table loaded at startup is skipped: no
\* analyzer call and no session for it, no append and no save in the step that
\* passes it; a run whose keywords are all present leaves both tables as loaded.
C2_SkipState ==
    /\ pc \in InRetryLoop \cup {"finish", "save_open", "save_write"}
          => kws[index] \notin KeywordsOf(hist.loaded)
    /\ (pc \in (Running \ {"start"}) \cup {"done"}
          /\ \A j \in DOMAIN kws : kws[j] \in KeywordsOf(hist.loaded))
          => /\ all_results = hist.loaded
             /\ durable = Sheets(hist.loaded)
             /\ file = (IF hist.loaded = <<>> THEN "missing" ELSE "ok")
             /\ held = {} /\ leaked = {}

C2_SkipStep ==
    (pc = "loop" /\ index <= Len(kws) /\ kws[index] \in KeywordsOf(hist.loaded))
        => \/ pc' = "cancelled"
           \/ /\ pc' = "loop"
              /\ index' = index + 1
              /\ UNCHANGED << all_results, file, durable, held, leaked, result,
                              hist >>

C2_SkipCompleted == []C2_SkipState /\ [][C2_SkipStep]_vars

C2_Witness ==
    /\ pc = "done"
    /\ Len(kws) = 2
    /\ \A j \in DOMAIN kws : kws[j] \in KeywordsOf(hist.loaded)
    /\ durable = Sheets(hist.loaded)

\* C3: whenever an attempt on a keyword begins, the workbook on disk is
\* complete, its table equals the in-memory table, and it holds one row, after
\* the loaded ones, for every keyword this run processed before.
C3_PersistedBeforeNext ==
    pc = "call" =>
        /\ file # "partial"
        /\ load_existing_results(file, durable) = all_results
        /\ Len(all_results) = Len(hist.loaded) + Cardinality(ProcessedBefore(index))
        /\ \A j \in ProcessedBefore(index) :
              \E r \in (Len(hist.loaded) + 1)..Len(all_results) :
                  file = "ok" /\ durable.main[r].keyword = kws[j]

C3_Witness ==
    /\ pc = "call"
    /\ index = 2
    /\ ProcessedBefore(index) = {1}
    /\ kws[1] # kws[2]

\* C7: every row appended in a run that has a non-empty error has verdict
\* FAIL, and every appended row with verdict PASS has an empty error and a
\* badge count of at most 5, also for a failed attempt with non-zero counts.
C7_ErrorMeansFail ==
    \A row \in AppendedRows :
        /\ row.error # "" => row.verdict = "FAIL"
        /\ row.verdict = "PASS" => row.error = "" /\ row.rocket_count <= PassThreshold

C7_Witness ==
    \E row \in AppendedRows :
        /\ row.error # ""
        /\ row.rocket_count \in 1..PassThreshold
        /\ row.verdict = "FAIL"

\* C10: one attempt navigates at most twice; the second navigation needs a
\* detected denial and the cooldown; with a detected denial classification
\* starts after exactly two navigations and two waits, without one after one.
C10_OneRetryOnDenial ==
    /\ att.navs <= 2
    /\ att.navs = 2 => att.denied /\ att.cooled
    /\ ~att.denied => att.navs <= 1 /\ att.waits <= 1
    /\ pc \in {"classify", "count", "debug"} =>
          IF att.denied THEN att.navs = 2 /\ att.waits = 2
          ELSE att.navs = 1 /\ att.waits = 1

C10_Witness == pc = "classify" /\ att.denied /\ att.cooled /\ att.navs = 2

\* keywords of kws, in order, that have no row in `table`
RECURSIVE Remaining(_, _)
Remaining(list, table) ==
    IF list = <<>> THEN <<>>
    ELSE IF Head(list) \in KeywordsOf(table) THEN Remaining(Tail(list), table)
         ELSE <<Head(list)>> \o Remaining(Tail(list), table)

\* C4: a cancellation at any point leaves on disk the table persisted so far;
\* the run started afterwards loads it, attempts no keyword that has a row in
\* it, and ends with that table followed by one row per remaining keyword.
C4_CancelThenResume ==
    /\ pc = "cancelled" =>
          /\ file # "partial"
          /\ load_existing_results(file, durable) = hist.at_cancel[1]
    /\ hist.at_cancel # <<>> => pc # "load_failed"
    /\ (hist.at_cancel # <<>> /\ pc \in InRetryLoop) =>
          kws[index] \notin KeywordsOf(hist.at_cancel[1])
    /\ (hist.at_cancel # <<>> /\ pc = "done") =>
          LET before == hist.at_cancel[1]
              rest == Remaining(kws, before) IN
          /\ file # "partial"
          /\ Len(durable.main) = Len(before) + Len(rest)
          /\ SubSeq(durable.main, 1, Len(before)) = before
          /\ \A j \in DOMAIN rest : durable.main[Len(before) + j].keyword = rest[j]

\* C5: outside the part of an attempt between create_driver and
\* cleanup_driver no session resource exists, and no resource kind exists
\* twice at any time.
C5_SessionReleased ==
    /\ pc \notin InAnalyzer => held = {} /\ leaked = {}
    /\ held \cap leaked = {}

\* C6: no exception leaves analyze_keyword; every failure of an attempt comes
\* back to main as a returned result.
C6_AnalyzerNeverRaises == pc # "main_except"

\* C8: an attempt that ends failed, that is, returns the message of a failure
\* raised in it, returns organic_count 0, badge count 0 and ratio 0.0.
C8_FailedHasZeroCounts ==
    (pc = "returned" /\ att.raised /\ result[1].error # "") =>
        /\ result[1].organic_count = 0
        /\ result[1].rocket_count = 0
        /\ result[1].rocket_ratio = <<0, 1>>

\* C9: an attempt in which a failure was raised returns verdict FAIL and the
\* failure message as a non-empty error, so that the retry loop does not stop.
C9_FailureIsReported ==
    (pc = "returned" /\ att.raised) =>
        /\ result[1].verdict = "FAIL"
        /\ result[1].error = att.msg
        /\ result[1].error # ""
        /\ ~ShouldBreak(last_error)

\* C11: no attempt classifies or counts a page that is an access-denial
\* page, and an attempt whose wait after the one retry times out ends in the
\* failure path with a non-empty error.
C11_DeniedPageNeverClassified ==
    /\ pc \in {"classify", "count", "debug"} => ~page.denied
    /\ (att.cooled /\ att.waits = 2 /\ page # NoPage /\ ~page.has_results) =>
          pc = "cleanup" /\ error_message # ""

\* the scanned items that are no advertisement and carry rank r, by position
OrganicAt(r) ==
    { j \in DOMAIN debug_items :
        ~debug_items[j].is_ad /\ debug_items[j].rank_number = r }

Min(S) == CHOOSE j \in S : \A k \in S : j <= k

\* C14: after every item the ranking window has keys within 1..10 only and at
\* most 10 entries, organic_count is at most 10 and the badge count is at
\* most organic_count.
C14_WindowBounded ==
    /\ DOMAIN ranked_items \subseteq 1..WindowSize
    /\ Cardinality(DOMAIN ranked_items) <= WindowSize
    /\ organic_count <= WindowSize
    /\ rocket_count <= organic_count

\* a full window has been counted, and an item ranked beyond the window has
\* been scanned
C14_Witness ==
    \/ pc = "cleanup" /\ organic_count = WindowSize
    \/ /\ pc = "count"
       /\ \E j \in DOMAIN debug_items :
             ~debug_items[j].is_ad /\ debug_items[j].rank_text = <<"1", "1">>

\* C15: after every item, each rank r of 1..10 is in the window exactly when
\* some scanned item is no advertisement and has rank r, and then holds the
\* badge category of the first such item in scan order.
C15_FirstOrganicWins ==
    \A r \in 1..WindowSize :
        IF OrganicAt(r) = {} THEN r \notin DOMAIN ranked_items
        ELSE /\ r \in DOMAIN ranked_items
             /\ ranked_items[r] = debug_items[Min(OrganicAt(r))].badge_type

\* an advertisement at rank r came first, and two later items that are no
\* advertisement share rank r with different badges
C15_Witness ==
    \E r \in 1..WindowSize : \E i, j, k \in DOMAIN debug_items :
        /\ i < j /\ j < k
        /\ debug_items[i].is_ad /\ debug_items[i].rank_number = r
        /\ {j, k} \subseteq OrganicAt(r)
        /\ debug_items[j].badge_type # debug_items[k].badge_type

\* C16: an attempt without error returns as organic_count the number of ranks
\* 1..10 some scanned organic item has, as badge count the number of those
\* whose first item is exactly rocket-delivery, and PASS exactly when the
\* badge count is at most 5; scenario A returns (10, 3, PASS) and scenario C
\* (6, 6, FAIL).
C16_Returned ==
    (pc = "build_result" /\ pc' = "returned" /\ error_message = "") =>
        LET present == { r \in 1..WindowSize : OrganicAt(r) # {} }
            rocket == { r \in present :
                          debug_items[Min(OrganicAt(r))].badge_type = ROCKET }
            res == result'[1] IN
        /\ res.organic_count = Cardinality(present)
        /\ res.rocket_count = Cardinality(rocket)
        /\ res.verdict = "PASS" <=> Cardinality(rocket) <= PassThreshold
        /\ res.verdict \in {"PASS", "FAIL"}
        /\ debug_items = DebugItems(ItemsA) =>
              /\ res.organic_count = 10 /\ res.rocket_count = 3
              /\ res.rocket_ratio = <<3, 10>> /\ res.verdict = "PASS"
        /\ debug_items = DebugItems(ItemsC) =>
              /\ res.organic_count = 6 /\ res.rocket_count = 6
              /\ res.rocket_ratio = <<6, 6>> /\ res.verdict = "FAIL"

C16_CountsAndVerdict == [][C16_Returned]_vars

\* scenario A has returned
C16_Witness ==
    /\ pc = "returned"
    /\ result = << SearchResult("k1", 10, 3, <<3, 10>>, "PASS", "") >>

\* C17: for the rank text of every listed item parse_rank_number returns
\* absent or an integer of 1..10, absent exactly when the text has no digit
\* or its digits form an integer outside 1..10; the decimal text of a
\* returned rank parses to that rank; "15w" and "" give absent, "7" gives 7.
C17_RankAbsentOrInWindow ==
    /\ \A j \in DOMAIN page.items :
          LET text == page.items[j].rank_text
              rank == parse_rank_number(text) IN
          /\ rank = None \/ rank \in 1..WindowSize
          /\ rank = None <=>
                \/ DigitsOf(text) = <<>>
                \/ ToInt(DigitsOf(text)) \notin 1..WindowSize
          /\ rank # None => parse_rank_number(Decimal(rank)) = rank
    /\ parse_rank_number(<<"1", "5", "w">>) = None
    /\ parse_rank_number(<<"7">>) = 7
    /\ parse_rank_number(<<>>) = None

\* C13: when all 3 attempts of a keyword failed, the appended row has the
\* counts and the ratio the third attempt ended with, verdict FAIL and the
\* error of that same attempt (stated for a third attempt that ended with an
\* error text).
C13_RowOfLastAttempt ==
    (/\ pc = "save_open" /\ hist.calls = MaxAttempts /\ ~hist.clean
     /\ hist.third[1].error # "") =>
        LET row == all_results[Len(all_results)]
            last == hist.third[1] IN
        /\ row.organic_count = last.organic_count
        /\ row.rocket_count = last.rocket_count
        /\ row.rocket_ratio = Round4(Ratio(last.rocket_count, last.organic_count))
        /\ row.verdict = "FAIL"
        /\ row.error = last.error

IsPrefix(p, q) == Len(p) <= Len(q) /\ SubSeq(q, 1, Len(p)) = p

\* the process has loaded its table and was not killed
Loaded == pc \in (Running \ {"start"}) \cup {"done", "save_failed"}

\* the j-th loop position that was recorded by the current run
Recorded(j) ==
    CHOOSE i \in hist.processed : Cardinality({k \in hist.processed : k < i}) = j - 1

\* C18: whenever the workbook is complete during a run it holds the rows
\* loaded at startup, unchanged and in order, followed by the rows recorded so
\* far in input order; every save appends exactly one row to the table
\* persisted before, and no step changes or removes a persisted row.
C18_SavedState ==
    (Loaded /\ file = "ok") =>
        LET first == Len(hist.loaded) IN
        /\ IsPrefix(hist.loaded, durable.main)
        /\ Len(durable.main) = first + Cardinality(hist.processed)
        /\ \A j \in 1..Cardinality(hist.processed) :
              durable.main[first + j].keyword = kws[Recorded(j)]

C18_SaveStep ==
    /\ (pc = "save_write" /\ pc' = "loop") =>
          /\ Len(durable'.main) = Len(hist.persisted) + 1
          /\ IsPrefix(hist.persisted, durable'.main)
    /\ file' = "ok" => IsPrefix(hist.persisted, durable'.main)

C18_AppendOnly == []C18_SavedState /\ [][C18_SaveStep]_vars

\* two rows have been saved behind a loaded one
C18_Witness ==
    /\ pc = "loop" /\ file = "ok"
    /\ hist.loaded # <<>>
    /\ Cardinality(hist.processed) = 2
    /\ Len(durable.main) = Len(hist.loaded) + 2

NoDuplicate(table) ==
    \A i, j \in DOMAIN table : table[i].keyword = table[j].keyword => i = j

\* C19: if the loaded table has no two rows with the same keyword, the table
\* of the run never has, and no keyword is taken up by two turns of the batch
\* loop.
C19_KeywordIsKey ==
    (Loaded /\ NoDuplicate(hist.loaded)) =>
        /\ NoDuplicate(all_results)
        /\ file = "ok" => NoDuplicate(durable.main)
        /\ \A i, j \in hist.processed : kws[i] = kws[j] => i = j
        /\ pc \in InRetryLoop => \A i \in hist.processed : kws[i] # kws[index]

\* C20: a keyword with a row in the loaded table is never attempted by the
\* run, whatever the verdict and the error of the row, and the row stays as
\* loaded, in memory and in every workbook the run completes.
C20_RecordedIsFinal ==
    Loaded =>
        \A j \in DOMAIN hist.loaded :
            /\ pc \in InRetryLoop => kws[index] # hist.loaded[j].keyword
            /\ \A i \in hist.processed : kws[i] # hist.loaded[j].keyword
            /\ all_results[j] = hist.loaded[j]
            /\ file = "ok" => durable.main[j] = hist.loaded[j]

\* a second run has ended over a table in which the first run recorded the
\* failure of k1 after 3 attempts, with k1 in its input
C20_Witness ==
    /\ runs = 2 /\ pc = "done"
    /\ \E j \in DOMAIN hist.loaded :
          /\ hist.loaded[j] = Row("k1", 0, 0, 0, "FAIL", "e1")
          /\ durable.main[j] = hist.loaded[j]
    /\ \E i \in DOMAIN kws : kws[i] = "k1"

\* C12: in a run that is not killed and can write its workbook, whatever the
\* attempts of a keyword do, the batch loop comes back with exactly one row
\* for every loop position that was not skipped, appended in input order and
\* persisted, and the loop ends.
C12_OneRowEach ==
    pc \in {"loop", "done"} =>
        LET first == Len(hist.loaded)
            taken == ProcessedBefore(index) IN
        /\ hist.processed = taken
        /\ Len(all_results) = first + Cardinality(taken)
        /\ \A j \in 1..Cardinality(taken) :
              all_results[first + j].keyword = kws[Recorded(j)]
        /\ taken # {} => file = "ok" /\ durable.main = all_results

C12_RunGoesOn == []C12_OneRowEach /\ <>(pc = "done")

\* the run has ended after a keyword whose 3 attempts all failed and another
\* keyword behind it
C12_Witness ==
    /\ pc = "done"
    /\ Cardinality(hist.processed) = 2
    /\ all_results[Len(hist.loaded) + 1].verdict = "FAIL"
    /\ all_results[Len(hist.loaded) + 1].error = "e1"
====
